---- MODULE Spec2Model ----
(***************************************************************************)
(* Velvet-noise generators (src/src/lib.rs), the tap-delay texture program *)
(* (src/src/main.rs) and the reverb program (src/examples/reverb.rs) as    *)
(* state machines.                                                         *)
(*                                                                         *)
(* Each generator object is a record holding the fields of its struct.     *)
(* Every draw from a randomness source (SmallRng, ThreadRng, Bernoulli) is *)
(* a nondeterministic choice over the values the draw can return.          *)
(* usize values are modelled as naturals: all runs stay far below 2^64.    *)
(***************************************************************************)
EXTENDS Integers, Sequences, FiniteSets

VARIABLES
    pc,        \* position of the running program: "start", "ready", or a panic
    args,      \* the arguments the program's constructor was called with
    ovn,       \* the OVNImpulseLocations object: [m, td]
    locs,      \* the values returned so far by the impulse location generator
    cvil,      \* the ChunkedOVNImpulseLocations object
    chunks,    \* the windows returned so far by ChunkedOVNImpulseLocations::next
    arn,       \* the ARNImpulseLocations object: [m_prev, td_minus_1, delta]
    arnlog,    \* m_prev before the last call of next, the last two indices
               \* returned, and the least and greatest gap between successive ones
    kernel,    \* the rendered kernel: a sequence of <<index, gain>> pairs
    taps,      \* the texture program's Vec of <<position, gain>> taps
    engine,    \* the texture program's loop: iterations done, last frame, what it
               \* read, the taps before the last iteration, and for every tap the
               \* position it was pushed at and the frames it has gone into
    noise,     \* the VelvetNoise object: [impulses, n, kovn]
    signal,    \* the samples and signs the noise stream has returned so far
               \* (of the additive stream: the last sample and sign only)
    thread_rng,    \* the thread-local generator behind every rand::thread_rng()
    gens,      \* two generator instances living in one thread, and their logs
    delay_buffer,     \* the reverb's ring buffer of input samples
    allpass_filters,  \* the reverb's cascade of AllPass objects
    reverb     \* the reverb's loop: what the last iteration read, fed and wrote

vars == <<pc, args, ovn, locs, cvil, chunks, arn, arnlog, kernel, taps, engine,
          noise, signal, thread_rng, gens, delay_buffer, allpass_filters, reverb>>
chunkVars == <<cvil, chunks>>
arnVars == <<arn, arnlog>>
tapVars == <<taps, engine>>
noiseVars == <<noise, signal>>
rngVars == <<thread_rng, gens>>
reverbVars == <<delay_buffer, allpass_filters, reverb>>

(***************************************************************************)
(* Bounds of the model.                                                    *)
(***************************************************************************)
MaxDensity == 4
MaxRate == 6
MaxCalls == 3
MaxChunkLength == 3
MaxWindows == 3
\* f32 has a 24-bit significand; the model's floating-point format keeps
\* MantBits significant bits and FracBits bits below the binary point, so
\* that runs reach the end of the exactly representable integers.
MantBits == 4
FracBits == 5
MaxIndex == 5
MaxSamples == 5
MaxIters == 7
\* main.rs:56 aims at 32 simultaneous taps; the model aims at this many
SuggestedTaps == 2
MaxNoiseSamples == 7
TapeLen == 3
MaxReverbSamples == 7

NoArgs == [density |-> 0, sample_rate |-> 0]
NoOVN == [m |-> 0, td |-> 0]
NoCvil == [impulses |-> NoOVN, chunk_length |-> 0, base |-> 0, store |-> <<>>]

\* the parts of the state a program does not own stay as constructed
IdleOVN == ovn = NoOVN
IdleChunked == cvil = NoCvil /\ chunks = <<>>
NoARN == [m_prev |-> 0, td_minus_1 |-> 0, delta |-> 0]
NoARNLog == [m_before |-> 0, returned |-> <<>>, min_gap |-> -1, max_gap |-> -1]
IdleARN == arn = NoARN /\ arnlog = NoARNLog
NoEngine == [iters |-> 0, ntaps0 |-> 0, retired |-> 0, reads |-> <<>>, frame |-> 0,
             before |-> <<>>, life |-> <<>>]
IdleTaps == taps = <<>> /\ engine = NoEngine
IdleKernel == kernel = <<>>
NoNoise == [impulses |-> NoOVN, p |-> 0, n |-> 0, kovn |-> 0]
NoSignal == [samples |-> <<>>, signs |-> <<>>]
IdleNoise == noise = NoNoise /\ signal = NoSignal
NoRng == [tape |-> <<>>, pos |-> 0]
IdleRng == thread_rng = NoRng /\ gens = <<>>
NoRing == [first |-> 0, data |-> <<>>]
NoReverb == [n |-> 0, inputs |-> <<>>, offsets |-> <<>>, terms |-> <<>>,
             delayed |-> <<>>, fed |-> <<>>, written |-> <<>>]
IdleReverb == delay_buffer = NoRing /\ allpass_filters = <<>> /\ reverb = NoReverb
IdleRest == IdleNoise /\ IdleRng /\ IdleReverb

Last(s) == s[Len(s)]

(***************************************************************************)
(* OVNImpulseLocations                                                     *)
(***************************************************************************)

\* usize division: sample_rate / density (traps when density = 0)
UDiv(a, b) == a \div b

\* OVNImpulseLocations::new: m = (0..), td = sample_rate / density
OVNNew(density, sample_rate) == [m |-> 0, td |-> UDiv(sample_rate, density)]

\* gen_range with an inclusive upper end
GenRangeInclusive(low, high) == low..high

\* Rng::gen_range(low, high): the half-open range [low, high); panics when empty
GenRange(low, high) == low..(high - 1)

\* the value without the grid step
OVNValNoGrid(m, td, jitter) == m + jitter

\* (self.m.next().unwrap() * self.td) + self.r1m.gen_range(0, self.td)
OVNVal(m, td, jitter) == (m * td) + jitter

\* the object after one call of next: the RangeFrom m has advanced by one
OVNAdvance(self) == [self EXCEPT !.m = self.m + 1]

\* the program calls OVNImpulseLocations::new(density, sample_rate)
OVNConstruct ==
    /\ pc = "start"
    /\ \E d \in 0..MaxDensity, s \in 0..MaxRate :
         /\ args' = [density |-> d, sample_rate |-> s]
         /\ IF d = 0
            THEN /\ pc' = "panic_divide_by_zero"
                 /\ ovn' = ovn
            ELSE /\ pc' = "ready"
                 /\ ovn' = OVNNew(d, s)
    /\ UNCHANGED <<locs, chunkVars, arnVars, kernel, tapVars,
                   noiseVars, rngVars, reverbVars>>

\* the program calls next() on the generator
OVNStep ==
    /\ pc = "ready"
    /\ ovn.m < MaxCalls
    /\ IF GenRange(0, ovn.td) = {}
       THEN /\ pc' = "panic_gen_range"
            /\ UNCHANGED <<ovn, locs>>
       ELSE /\ \E jitter \in GenRange(0, ovn.td) :
                 /\ locs' = Append(locs, OVNVal(ovn.m, ovn.td, jitter))
                 /\ ovn' = OVNAdvance(ovn)
            /\ pc' = pc
    /\ UNCHANGED <<args, chunkVars, arnVars, kernel, tapVars,
                   noiseVars, rngVars, reverbVars>>

InitOVN ==
    /\ pc = "start"
    /\ args = NoArgs
    /\ ovn = NoOVN
    /\ locs = <<>>
    /\ IdleChunked
    /\ IdleARN
    /\ IdleKernel
    /\ IdleTaps
    /\ IdleRest

NextOVN == OVNConstruct \/ OVNStep

SpecOVN == InitOVN /\ [][NextOVN]_vars

ValidOVNArgs == 0 < args.density /\ args.density <= args.sample_rate

\* C3: for 0 < density <= sample_rate, every value returned by
\* OVNImpulseLocations::next is strictly greater than the previous one.
C3_StrictlyIncreasing ==
    (pc = "ready" /\ ValidOVNArgs) =>
        \A i \in 1..(Len(locs) - 1) : locs[i] < locs[i + 1]

\* three calls have returned, with a grid cell wider than one sample
C3_Witness ==
    /\ pc = "ready" /\ ValidOVNArgs
    /\ ovn.td > 1
    /\ Len(locs) = 3
    /\ locs[2] = locs[1] + 1

\* td as the claim states it: floor(sample_rate / density)
FloorTd == args.sample_rate \div args.density

\* C4: the k-th value lies in the k-th grid cell [k*td, (k+1)*td), so the
\* number of produced indices below c*td is exactly c.
C4_OnePerGridCell ==
    (pc = "ready" /\ ValidOVNArgs) =>
        /\ \A k \in 1..Len(locs) :
             (k - 1) * FloorTd <= locs[k] /\ locs[k] < k * FloorTd
        /\ \A c \in 0..Len(locs) :
             Cardinality({i \in 1..Len(locs) : locs[i] < c * FloorTd}) = c

\* three calls have returned and one of them sits at the top of its cell
C4_Witness ==
    /\ pc = "ready" /\ ValidOVNArgs
    /\ FloorTd = 3
    /\ Len(locs) = 3
    /\ locs[2] = (2 * FloorTd) - 1

\* C8: new rejects density == 0, sample_rate == 0 and density > sample_rate
\* explicitly at construction: no division trap, no generator with td == 0.
C8_InvalidConfigRejected ==
    (pc # "start" /\ ~ValidOVNArgs) => pc = "rejected"

\* an invalid configuration has been constructed and fails only in next()
C8_LateFailure ==
    /\ pc = "panic_gen_range"
    /\ args.density > args.sample_rate
    /\ ovn.td = 0

(***************************************************************************)
(* ChunkedOVNImpulseLocations                                              *)
(***************************************************************************)

\* ChunkedOVNImpulseLocations::new: base = 0, store = None
ChunkedNew(density, sample_rate, chunk_length) ==
    [impulses |-> OVNNew(density, sample_rate),
     chunk_length |-> chunk_length,
     base |-> 0,
     store |-> <<>>]

\* a next that forgets the pending index
TakeStoreDropped(store) == <<>>

\* if let Some(x) = self.store { chunk.push(x); self.store = None; }
\* (Option<usize> as a sequence of length 0 or 1)
TakeStore(store) == store

\* the window test: x - self.base < self.chunk_length. The usize subtraction
\* underflows when x < base (wrapping to a value above every chunk length).
InChunk(x, base, chunk_length) == x >= base /\ x - base < chunk_length

\* a base that moves on by two windows
AdvanceBaseTwice(base, chunk_length) == base + (2 * chunk_length)

\* self.base += self.chunk_length
AdvanceBase(base, chunk_length) == base + chunk_length

\* the loop of next, started with the window collected so far: every way the
\* underlying generator's draws can run it to its break
RECURSIVE Drain(_, _, _)
Drain(self, chunk, drawn) ==
    UNION { LET x == OVNVal(self.impulses.m, self.impulses.td, jitter)
                s1 == [self EXCEPT !.impulses = OVNAdvance(self.impulses)]
            IN  IF InChunk(x, self.base, self.chunk_length)
                THEN Drain(s1, Append(chunk, x), Append(drawn, x))
                ELSE {[self |-> [s1 EXCEPT !.store = <<x>>,
                                           !.base = AdvanceBase(self.base,
                                                                self.chunk_length)],
                       chunk |-> chunk,
                       drawn |-> Append(drawn, x),
                       underflow |-> x < self.base]}
          : jitter \in GenRange(0, self.impulses.td) }

\* ChunkedOVNImpulseLocations::next: the outcomes of one call
ChunkedNext(self) ==
    Drain([self EXCEPT !.store = <<>>], TakeStore(self.store), <<>>)

\* the program calls ChunkedOVNImpulseLocations::new with a valid configuration
ChunkedConstruct ==
    /\ pc = "start"
    /\ \E d \in 1..MaxDensity, s \in 1..MaxRate, cl \in 1..MaxChunkLength :
         /\ d <= s
         /\ args' = [density |-> d, sample_rate |-> s, chunk_length |-> cl]
         /\ cvil' = ChunkedNew(d, s, cl)
    /\ pc' = "ready"
    /\ UNCHANGED <<ovn, locs, chunks, arnVars, kernel, tapVars,
                   noiseVars, rngVars, reverbVars>>

\* the program calls next() on the chunked adapter
ChunkedStep ==
    /\ pc = "ready"
    /\ Len(chunks) < MaxWindows
    /\ \E r \in ChunkedNext(cvil), overflow_checks \in BOOLEAN :
         IF r.underflow /\ overflow_checks
         THEN \* a build with overflow checks unwinds at x - self.base
              /\ pc' = "panic_subtract_overflow"
              /\ UNCHANGED <<locs, chunkVars>>
         ELSE /\ cvil' = r.self
              /\ chunks' = Append(chunks, r.chunk)
              /\ locs' = locs \o r.drawn
              /\ pc' = pc
    /\ UNCHANGED <<args, ovn, arnVars, kernel, tapVars,
                   noiseVars, rngVars, reverbVars>>

InitChunked ==
    /\ pc = "start"
    /\ args = NoArgs
    /\ IdleOVN
    /\ locs = <<>>
    /\ cvil = NoCvil
    /\ chunks = <<>>
    /\ IdleARN
    /\ IdleKernel
    /\ IdleTaps
    /\ IdleRest

NextChunked == ChunkedConstruct \/ ChunkedStep

SpecChunked == InitChunked /\ [][NextChunked]_vars

RECURSIVE Flatten(_)
Flatten(ss) == IF ss = <<>> THEN <<>> ELSE Head(ss) \o Flatten(Tail(ss))

Elems(s) == {s[i] : i \in 1..Len(s)}

\* C5: the j-th window (j = 0, 1, ...) holds only indices x with
\* 0 <= x - j*chunk_length < chunk_length, and the windows returned so far
\* hold exactly the underlying indices below their common upper end.
C5_WindowHoldsOwnRange ==
    pc = "ready" =>
        /\ \A j \in 1..Len(chunks) : \A x \in Elems(chunks[j]) :
             /\ (j - 1) * args.chunk_length <= x
             /\ x < j * args.chunk_length
        /\ Elems(Flatten(chunks)) =
             {x \in Elems(locs) : x < Len(chunks) * args.chunk_length}

\* C6: the returned windows, concatenated in order and followed by the
\* pending carried-over index, are the values drawn from the underlying
\* stream in the order they were drawn.
C6_ConcatenationIsStream ==
    pc = "ready" => Flatten(chunks) \o cvil.store = locs

\* two windows returned, the second one starting with the carried-over index
\* and holding a further index, and a third index pending
C6_Witness ==
    /\ pc = "ready"
    /\ Len(chunks) = 2
    /\ Len(chunks[2]) >= 2
    /\ Len(locs) > Len(chunks[1]) + 1
    /\ chunks[2][1] = locs[Len(chunks[1]) + 1]
    /\ Len(cvil.store) = 1

(***************************************************************************)
(* f32 arithmetic.  A float is the integer number of units of 2^-FracBits  *)
(* it holds.  Every operation returns the exact result rounded to the      *)
(* nearest float, ties to even.                                            *)
(***************************************************************************)

RECURSIVE Pow2(_)
Pow2(n) == IF n = 0 THEN 1 ELSE 2 * Pow2(n - 1)

Grid == Pow2(FracBits)

Abs(x) == IF x < 0 THEN 0 - x ELSE x

\* the largest k with d * 2^k <= n, for n >= d > 0
RECURSIVE Log2Floor(_, _)
Log2Floor(n, d) == IF n < 2 * d THEN 0 ELSE 1 + Log2Floor(n, 2 * d)

\* the integer nearest to a / b (a >= 0, b > 0), ties to the even one
RoundHalfEven(a, b) ==
    LET q == a \div b
        r == a - (q * b)
    IN  IF 2 * r < b THEN q
        ELSE IF 2 * r > b THEN q + 1
        ELSE IF q % 2 = 0 THEN q ELSE q + 1

\* the float nearest to the rational n / d (d > 0)
RoundToFloat(n, d) ==
    LET a == Abs(n) * Grid
        k == IF a < d THEN 0 ELSE Log2Floor(a, d)
        ulp == IF k < MantBits THEN 1 ELSE Pow2(k - (MantBits - 1))
        mag == ulp * RoundHalfEven(a, d * ulp)
    IN  IF n < 0 THEN 0 - mag ELSE mag

F32(n) == RoundToFloat(n, 1)
FAdd(x, y) == RoundToFloat(x + y, Grid)
FSub(x, y) == RoundToFloat(x - y, Grid)
FMul(x, y) == RoundToFloat(x * y, Grid * Grid)
FDiv(x, y) == IF y < 0 THEN RoundToFloat(0 - x, 0 - y) ELSE RoundToFloat(x, y)

\* `as usize`: truncation toward zero, negative values saturate to 0
\* (the cast's defined result since Rust 1.45)
AsUsize(x) == IF x < 0 THEN 0 ELSE x \div Grid

(***************************************************************************)
(* ARNImpulseLocations                                                     *)
(***************************************************************************)

\* the values of delta the model constructs generators with: 0, 1/2, 1
Deltas == {0, Grid \div 2, Grid}

\* the values of self.r1m.gen::<f32>() the model draws: 0, 1/4, 1/2, 3/4
Uniforms == {0, Grid \div 4, Grid \div 2, 3 * (Grid \div 4)}

\* ARNImpulseLocations::new: m_prev = 0, td_minus_1 = (sample_rate / density) - 1
ARNNew(density, sample_rate, delta) ==
    [m_prev |-> F32(0),
     td_minus_1 |-> FSub(FDiv(sample_rate, density), F32(1)),
     delta |-> delta]

\* an ARN position whose jitter-free step is scaled by delta instead of 1 - delta
ARNValSwapped(self, u) ==
    FAdd(FAdd(FAdd(self.m_prev, F32(1)),
              FMul(self.td_minus_1, self.delta)),
         FMul(FMul(FMul(F32(2), self.delta), self.td_minus_1), u))

\* the position after one call of next, for the uniform draw u:
\* self.m_prev + 1. + (self.td_minus_1 * (1. - self.delta))
\*                  + (2. * self.delta * self.td_minus_1 * u)
ARNVal(self, u) ==
    FAdd(FAdd(FAdd(self.m_prev, F32(1)),
              FMul(self.td_minus_1, FSub(F32(1), self.delta))),
         FMul(FMul(FMul(F32(2), self.delta), self.td_minus_1), u))

\* the positions up to which the model follows a generator
MaxPos == Pow2(MantBits + 1) * Grid

LastTwo(s) == IF Len(s) <= 2 THEN s ELSE Tail(s)

Min(a, b) == IF a <= b THEN a ELSE b
Max(a, b) == IF a >= b THEN a ELSE b

\* the log after next has returned index: the gap to the index before it
\* widens the range of gaps seen (as tests::spread measures them)
ARNLogged(log, m_before, index) ==
    IF log.returned = <<>>
    THEN [log EXCEPT !.m_before = m_before, !.returned = <<index>>]
    ELSE LET gap == index - Last(log.returned)
         IN  [m_before |-> m_before,
              returned |-> LastTwo(Append(log.returned, index)),
              min_gap |-> IF log.min_gap = -1 THEN gap ELSE Min(log.min_gap, gap),
              max_gap |-> IF log.max_gap = -1 THEN gap ELSE Max(log.max_gap, gap)]

\* the program calls ARNImpulseLocations::new(density, sample_rate, delta)
\* with whole-numbered positive density and sample_rate
ARNConstruct ==
    /\ pc = "start"
    /\ \E d \in 1..MaxDensity, s \in 1..MaxRate, delta \in Deltas :
         /\ args' = [density |-> d, sample_rate |-> s, delta |-> delta]
         /\ arn' = ARNNew(F32(d), F32(s), delta)
    /\ pc' = "ready"
    /\ UNCHANGED <<ovn, locs, chunkVars, arnlog, kernel, tapVars,
                   noiseVars, rngVars, reverbVars>>

\* the program calls next() on the generator
ARNStep ==
    /\ pc = "ready"
    /\ Abs(arn.m_prev) < MaxPos
    /\ \E u \in Uniforms :
         LET val == ARNVal(arn, u)
         IN  /\ arn' = [arn EXCEPT !.m_prev = val]
             /\ arnlog' = ARNLogged(arnlog, arn.m_prev, AsUsize(val))
    /\ UNCHANGED <<pc, args, ovn, locs, chunkVars, kernel, tapVars,
                   noiseVars, rngVars, reverbVars>>

InitARN ==
    /\ pc = "start"
    /\ args = NoArgs
    /\ IdleOVN
    /\ locs = <<>>
    /\ IdleChunked
    /\ arn = NoARN
    /\ arnlog = NoARNLog
    /\ IdleKernel
    /\ IdleTaps
    /\ IdleRest

NextARN == ARNConstruct \/ ARNStep

SpecARN == InitARN /\ [][NextARN]_vars

ValidARNArgs == 0 < args.density /\ args.density <= args.sample_rate

ARNCalled == Len(arnlog.returned) >= 1

ARNNonDecreasing ==
    Len(arnlog.returned) = 2 => arnlog.returned[1] <= arnlog.returned[2]

\* C9: new rejects density > sample_rate at construction, and no generator
\* returns an index smaller than the one it returned on the previous call.
C9_RejectedNeverDecreasing ==
    /\ (pc # "start" /\ args.density > args.sample_rate) => pc = "rejected"
    /\ ARNNonDecreasing

\* C10: for 0 < density <= sample_rate and delta in [0, 1], m_prev grows by
\* at least 1 on every call and the returned indices are non-decreasing.
C10_GrowsByAtLeastOne ==
    (pc = "ready" /\ ValidARNArgs /\ ARNCalled) =>
        /\ arn.m_prev >= arnlog.m_before + F32(1)
        /\ ARNNonDecreasing

\* what does hold of a valid generator: neither m_prev nor the returned
\* index ever decreases
ARNValidNeverDecreases ==
    (pc = "ready" /\ ValidARNArgs /\ ARNCalled) =>
        /\ arn.m_prev >= arnlog.m_before
        /\ ARNNonDecreasing

\* a generator with density = sample_rate whose position no longer moves:
\* m_prev + 1. rounds back to m_prev
ARNStalled ==
    /\ pc = "ready" /\ ARNCalled
    /\ args.density = args.sample_rate
    /\ arn.m_prev = arnlog.m_before

(***************************************************************************)
(* Choice and the velvet-noise kernel                                      *)
(***************************************************************************)

\* a sign stream whose failure branch yields 0
ChoiceNextZero(success) == IF success THEN F32(1) ELSE F32(0)

\* Choice::next: match self.0.sample(..) { true => Some(1.), false => Some(-1.) }
ChoiceNext(success) == IF success THEN F32(1) ELSE F32(0 - 1)

\* VelvetNoiseKernal::next: (Some(i), Some(x)) => Some((i, x))
KernelNext(i, x) == <<i, x>>

\* the pairs pulled from a kernel over a fresh location stream up to and
\* including the first pair whose index reaches limit: every way the jitter
\* and sign draws can come out
RECURSIVE KernelDraws(_, _)
KernelDraws(impulses, limit) ==
    UNION { LET pair == KernelNext(OVNVal(impulses.m, impulses.td, jitter),
                                   ChoiceNext(success))
            IN  IF pair[1] >= limit
                THEN {<<pair>>}
                ELSE {<<pair>> \o rest :
                        rest \in KernelDraws(OVNAdvance(impulses), limit)}
          : jitter \in GenRange(0, impulses.td), success \in BOOLEAN }

Front(s) == SubSeq(s, 1, Len(s) - 1)

Indices(pairs) == [k \in 1..Len(pairs) |-> pairs[k][1]]

\* .take_while(|(i, _)| i < &samples.len()).collect(): the pairs before the
\* first one that fails the test
TakeWhileBelow(draws) == Front(draws)

(***************************************************************************)
(* Kernel renderer: render(min_index, max_index, gain)                     *)
(***************************************************************************)

\* the pairs of the drawn sequence whose index is at least min_index, each
\* sign scaled by the gain
RECURSIVE RenderPairs(_, _, _)
RenderPairs(pairs, min_index, gain) ==
    IF pairs = <<>> THEN <<>>
    ELSE LET p == Head(pairs)
             rest == RenderPairs(Tail(pairs), min_index, gain)
         IN  IF p[1] >= min_index
             THEN <<<<p[1], FMul(gain, p[2])>>>> \o rest
             ELSE rest

\* the outcomes of one render: the kernel and the pairs drawn for it
Render(impulses, min_index, max_index, gain) ==
    { [kernel |-> RenderPairs(TakeWhileBelow(draws), min_index, gain),
       draws |-> draws] :
        draws \in KernelDraws(impulses, max_index) }

\* the per-stage gains the model renders with: 1/2, 1, 3/2
Gains == {Grid \div 2, Grid, 3 * (Grid \div 2)}

\* the program renders one kernel over [min_index, max_index)
RenderKernel ==
    /\ pc = "start"
    /\ \E d \in 1..MaxDensity, s \in 1..MaxRate,
          lo \in 0..MaxIndex, hi \in 0..MaxIndex, gain \in Gains :
         /\ d <= s
         /\ lo <= hi
         /\ args' = [density |-> d, sample_rate |-> s,
                     min_index |-> lo, max_index |-> hi, gain |-> gain]
         /\ \E r \in Render(OVNNew(d, s), lo, hi, gain) :
              /\ kernel' = r.kernel
              /\ locs' = Indices(r.draws)
    /\ pc' = "rendered"
    /\ UNCHANGED <<ovn, chunkVars, arnVars, tapVars,
                   noiseVars, rngVars, reverbVars>>

InitKernel ==
    /\ pc = "start"
    /\ args = NoArgs
    /\ IdleOVN
    /\ locs = <<>>
    /\ IdleChunked
    /\ IdleARN
    /\ kernel = <<>>
    /\ IdleTaps
    /\ IdleRest

NextKernel == RenderKernel

SpecKernel == InitKernel /\ [][NextKernel]_vars

\* C7: every rendered pair has min_index <= index < max_index, the indices
\* are strictly increasing, every value is +gain or -gain, and rendering
\* stops at the first drawn index that reaches max_index.
C7_RenderedKernel ==
    pc = "rendered" =>
        /\ \A k \in 1..Len(kernel) :
             /\ args.min_index <= kernel[k][1]
             /\ kernel[k][1] < args.max_index
             /\ kernel[k][2] \in {args.gain, 0 - args.gain}
        /\ \A k \in 1..(Len(kernel) - 1) : kernel[k][1] < kernel[k + 1][1]
        /\ Last(locs) >= args.max_index
        /\ \A k \in 1..(Len(locs) - 1) : locs[k] < args.max_index
        /\ Indices(kernel) =
             SelectSeq(Front(locs), LAMBDA i : i >= args.min_index)

\* a kernel of two pairs with both signs, rendered over a range that starts
\* above an index the stream produced and ends below the one it stopped at
C7_Witness ==
    /\ pc = "rendered"
    /\ Len(kernel) = 2
    /\ kernel[1][2] = args.gain
    /\ kernel[2][2] = 0 - args.gain
    /\ args.gain # Grid
    /\ locs[1] < args.min_index
    /\ Last(locs) > args.max_index

(***************************************************************************)
(* The texture program (main.rs, process): a tap-delay convolution engine  *)
(***************************************************************************)

\* the decoded source: sample i (from 0) holds the amplitude (i + 1) / 8
Samples(n) == [i \in 0..(n - 1) |-> (i + 1) * (Grid \div 8)]

\* let gain = 0.1
OutputGain == RoundToFloat(1, 10)

\* density = 32. / (duration as f32 / sample_rate), then `density as usize`
TapDensity(duration, sample_rate) ==
    AsUsize(FDiv(F32(SuggestedTaps), FDiv(F32(duration), F32(sample_rate))))

\* convolve_kern: accumulator = accumulator.add_amp(samples[*i].scale_amp(*x))
RECURSIVE ConvolveKern(_, _, _)
ConvolveKern(samples, kern, accumulator) ==
    IF kern = <<>> THEN accumulator
    ELSE ConvolveKern(samples, Tail(kern),
                      FAdd(accumulator, FMul(samples[Head(kern)[1]], Head(kern)[2])))

\* a tap that moves on by two positions
MoveTapByTwo(tap) == <<tap[1] + 2, tap[2]>>

\* *tap = (tap.0 + 1, tap.1)
MoveTap(tap) == <<tap[1] + 1, tap[2]>>

\* a retain that keeps a tap one position longer
RetainUpToLen(tap, max_index) == tap[1] <= max_index + 1

\* taps.retain(|&tap| tap.0 <= max_index)
Retain(tap, max_index) == tap[1] <= max_index

\* a replenishment that pushes one tap too few
ReplenishedShort(length_before, length_after) ==
    IF length_before = length_after THEN 0 ELSE length_before - length_after - 1

\* for _ in 0..(length_before - length_after): the number of taps pushed
Replenished(length_before, length_after) == length_before - length_after

\* taps.push((0, choice.next().unwrap()))
FreshTap(success) == <<0, ChoiceNext(success)>>

\* what the model notes of taps at the moment they enter the Vec: the
\* position they start at, and that they have gone into no frame yet
Born(pushed) == [k \in 1..Len(pushed) |-> [start |-> pushed[k][1], frames |-> 0]]

\* the items of s at the positions in keep, in order
RECURSIVE KeepFrom(_, _, _)
KeepFrom(s, keep, k) ==
    IF k > Len(s) THEN <<>>
    ELSE (IF k \in keep THEN <<s[k]>> ELSE <<>>) \o KeepFrom(s, keep, k + 1)

Keep(s, keep) == KeepFrom(s, keep, 1)

\* the program reads its source and seeds the taps from one kernel pass
TexSeed ==
    /\ pc = "start"
    /\ \E n \in 1..MaxSamples, s \in 1..MaxRate :
         LET d == TapDensity(n, s)
             rate == AsUsize(F32(s))
         IN  /\ args' = [density |-> d, sample_rate |-> rate, samples |-> n]
             /\ IF d = 0
                THEN /\ pc' = "panic_divide_by_zero"
                     /\ UNCHANGED tapVars
                ELSE IF GenRange(0, UDiv(rate, d)) = {}
                THEN /\ pc' = "panic_gen_range"
                     /\ UNCHANGED tapVars
                ELSE /\ pc' = "running"
                     /\ \E draws \in KernelDraws(OVNNew(d, rate), n) :
                          /\ taps' = TakeWhileBelow(draws)
                          /\ engine' = [NoEngine EXCEPT
                                          !.ntaps0 = Len(TakeWhileBelow(draws)),
                                          !.life = Born(TakeWhileBelow(draws))]
    /\ UNCHANGED <<ovn, locs, chunkVars, arnVars, kernel,
                   noiseVars, rngVars, reverbVars>>

\* the number of output frames: spec.sample_rate * n_seconds, as far as the
\* model follows the loop
NSamples == IF args.sample_rate * 10 < MaxIters THEN args.sample_rate * 10 ELSE MaxIters

\* one iteration of the output loop: convolve, move the taps, retire, replenish
TexStep ==
    /\ pc = "running"
    /\ engine.iters < NSamples
    /\ IF \E k \in 1..Len(taps) : taps[k][1] >= args.samples
       THEN /\ pc' = "panic_index_out_of_bounds"
            /\ UNCHANGED tapVars
       ELSE LET max_index == args.samples - 1
                frame == FMul(ConvolveKern(Samples(args.samples), taps, 0), OutputGain)
                moved == [k \in 1..Len(taps) |-> MoveTap(taps[k])]
                kept == SelectSeq(moved, LAMBDA tap : Retain(tap, max_index))
                fresh == Replenished(Len(moved), Len(kept))
                aged == [k \in 1..Len(taps) |->
                           [engine.life[k] EXCEPT !.frames = engine.life[k].frames + 1]]
                survivors == {k \in 1..Len(taps) : Retain(moved[k], max_index)}
            IN  /\ \E signs \in [1..fresh -> BOOLEAN] :
                     LET pushed == [k \in 1..fresh |-> FreshTap(signs[k])]
                     IN  /\ taps' = kept \o pushed
                         /\ engine' = [engine EXCEPT
                                         !.iters = engine.iters + 1,
                                         !.retired = Len(moved) - Len(kept),
                                         !.reads = Indices(taps),
                                         !.frame = frame,
                                         !.before = taps,
                                         !.life = Keep(aged, survivors) \o Born(pushed)]
                /\ pc' = pc
    /\ UNCHANGED <<args, ovn, locs, chunkVars, arnVars, kernel,
                   noiseVars, rngVars, reverbVars>>

InitTex ==
    /\ pc = "start"
    /\ args = NoArgs
    /\ IdleOVN
    /\ locs = <<>>
    /\ IdleChunked
    /\ IdleARN
    /\ IdleKernel
    /\ taps = <<>>
    /\ engine = NoEngine
    /\ IdleRest

NextTex == TexSeed \/ TexStep

SpecTex == InitTex /\ [][NextTex]_vars

\* C1: after every iteration of the per-sample loop the number of taps
\* equals the number of taps at seeding.
C1_TapCountConstant ==
    pc = "running" => Len(taps) = engine.ntaps0

\* the second or a later iteration has just retired a tap of a set of
\* several taps and pushed its replacement
C1_Witness ==
    /\ pc = "running"
    /\ engine.iters >= 2
    /\ engine.retired >= 1
    /\ engine.ntaps0 >= 2
    /\ Len(taps) = engine.ntaps0
    /\ Last(taps)[1] = 0

\* C2: with N >= 1 source samples every tap position is in [0, N) at
\* seeding and after every retire/replenish step, so every read of
\* source[tap.position] is inside the source buffer.
C2_TapsInsideSource ==
    /\ pc # "panic_index_out_of_bounds"
    /\ pc = "running" =>
         /\ \A k \in 1..Len(taps) : 0 <= taps[k][1] /\ taps[k][1] < args.samples
         /\ \A k \in 1..Len(engine.reads) :
              0 <= engine.reads[k] /\ engine.reads[k] < args.samples

\* the last convolution read the last source sample, whose tap was then
\* retired and replaced by a tap at position 0
C2_Witness ==
    /\ pc = "running"
    /\ \E k \in 1..Len(engine.reads) : engine.reads[k] = args.samples - 1
    /\ engine.retired = 1
    /\ Last(taps)[1] = 0
    /\ Len(taps) >= 2

ARNExactRange ==
    arnlog.m_before + ((args.sample_rate \div args.density) * Grid)
        <= Pow2(MantBits) * Grid

Skews == {0, Grid \div 2, Grid, 3 * (Grid \div 2)}

\* Bernoulli::new(skew): an error unless 0 <= skew <= 1
BernoulliNew(skew) == 0 <= skew /\ skew <= Grid

\* self.0.sample(&mut self.1): the outcomes a Bernoulli(p) trial can have
BernoulliSample(p) == {b \in BOOLEAN : IF b THEN p > 0 ELSE p < Grid}

\* Choice::classic() == Choice::crushed(0.5)
ClassicSkew == Grid \div 2

\* a test that fires one sample after the pending impulse location
NoiseHitLate(n, kovn) == n = kovn + 1

\* match self.n == self.kovn
NoiseHit(n, kovn) == n = kovn

\* the program calls VelvetNoise::new(density, sample_rate), or
\* CrushedOriginalVelvetNoise::new(density, sample_rate, p)
NoiseConstruct ==
    /\ pc = "start"
    /\ \E d \in 0..MaxDensity, s \in 0..MaxRate, p \in Skews,
          variant \in {"VelvetNoise", "CrushedOriginalVelvetNoise"} :
         /\ variant = "VelvetNoise" => p = ClassicSkew
         /\ args' = [density |-> d, sample_rate |-> s, p |-> p, variant |-> variant]
         /\ IF d = 0
            THEN /\ pc' = "panic_divide_by_zero"
                 /\ UNCHANGED <<locs, noise>>
            ELSE IF GenRange(0, OVNNew(d, s).td) = {}
            THEN /\ pc' = "panic_gen_range"
                 /\ UNCHANGED <<locs, noise>>
            ELSE IF ~BernoulliNew(p)
            THEN /\ pc' = "panic_unwrap"
                 /\ UNCHANGED <<locs, noise>>
            ELSE /\ pc' = "ready"
                 /\ \E jitter \in GenRange(0, OVNNew(d, s).td) :
                      LET imps == OVNNew(d, s)
                          kovn == OVNVal(imps.m, imps.td, jitter)
                      IN  /\ noise' = [impulses |-> OVNAdvance(imps), p |-> p,
                                       n |-> 0, kovn |-> kovn]
                          /\ locs' = <<kovn>>
    /\ UNCHANGED <<ovn, chunkVars, arnVars, kernel, tapVars, signal,
                   rngVars, reverbVars>>

\* the program calls next() on the noise stream
NoiseStep ==
    /\ pc = "ready"
    /\ noise.n < MaxNoiseSamples
    /\ IF NoiseHit(noise.n, noise.kovn)
       THEN \E jitter \in GenRange(0, noise.impulses.td),
               success \in BernoulliSample(noise.p) :
              LET kovn == OVNVal(noise.impulses.m, noise.impulses.td, jitter)
                  value == ChoiceNext(success)
              IN  /\ noise' = [noise EXCEPT !.impulses = OVNAdvance(noise.impulses),
                                            !.kovn = kovn,
                                            !.n = noise.n + 1]
                  /\ locs' = Append(locs, kovn)
                  /\ signal' = [samples |-> Append(signal.samples, value),
                                signs |-> Append(signal.signs, <<success, value>>)]
       ELSE /\ noise' = [noise EXCEPT !.n = noise.n + 1]
            /\ locs' = locs
            /\ signal' = [signal EXCEPT !.samples = Append(signal.samples, F32(0))]
    /\ UNCHANGED <<pc, args, ovn, chunkVars, arnVars, kernel, tapVars,
                   rngVars, reverbVars>>

InitNoise ==
    /\ pc = "start"
    /\ args = NoArgs
    /\ IdleOVN
    /\ locs = <<>>
    /\ IdleChunked
    /\ IdleARN
    /\ IdleKernel
    /\ IdleTaps
    /\ noise = NoNoise
    /\ signal = NoSignal
    /\ IdleRng
    /\ IdleReverb

NextNoise == NoiseConstruct \/ NoiseStep

SpecNoise == InitNoise /\ [][NextNoise]_vars

\* the number of non-zero samples among the first k returned
NonZero(k) == Cardinality({i \in 1..k : signal.samples[i] # 0})

\* sample n is +1 or -1 exactly when n is an index the location generator
\* produced, and 0 otherwise; the first k*td samples hold k non-zero ones
NoiseFollowsLocations ==
    /\ \A i \in 1..Len(signal.samples) :
         IF (i - 1) \in Elems(locs)
         THEN signal.samples[i] \in {F32(1), F32(0 - 1)}
         ELSE signal.samples[i] = 0
    /\ \A k \in 0..Len(signal.samples) :
         k * FloorTd <= Len(signal.samples) => NonZero(k * FloorTd) = k

C13_ChoiceIsSign ==
    pc = "ready" =>
        /\ \A k \in 1..Len(signal.signs) :
             /\ signal.signs[k][2] = (IF signal.signs[k][1] THEN F32(1) ELSE F32(0 - 1))
             /\ signal.signs[k][2] \in {F32(1), F32(0 - 1)}
             /\ signal.signs[k][2] # 0
        /\ Len(signal.signs) = Cardinality({x \in Elems(locs) : x < noise.n})

\* a crushed stream has returned three signs, both values among them
C13_Witness ==
    /\ pc = "ready"
    /\ args.variant = "CrushedOriginalVelvetNoise"
    /\ Len(signal.signs) = 3
    /\ \E j, k \in 1..3 : signal.signs[j][1] /\ ~signal.signs[k][1]

(***************************************************************************)
(* Two generator instances in one thread.  A random number generator is    *)
(* the stream of values its seed fixes (tape) and the number of values     *)
(* taken from it (pos).  SmallRng::from_entropy() makes a generator owned  *)
(* by the instance; rand::thread_rng() returns a handle to the one         *)
(* generator of the calling thread.                                        *)
(***************************************************************************)

\* the values a generator's stream is made of: 0 and 3/4
TapeDraws == {0, 3 * (Grid \div 4)}

\* the streams a freshly seeded generator can have
Tapes == [1..TapeLen -> TapeDraws]

\* SmallRng::from_entropy(): a generator of its own, on any stream
SmallRngs == {[tape |-> t, pos |-> 0] : t \in Tapes}

\* the next value of a generator, and the generator after it
RngNext(rng) == [value |-> rng.tape[rng.pos + 1],
                 rng |-> [rng EXCEPT !.pos = rng.pos + 1]]

\* gen_range(0, td) computed from the generator's next value
JitterOf(u, td) == (u * td) \div Grid

\* the indices an ARN generator returns when it alone takes the draws
RECURSIVE ARNRun(_, _)
ARNRun(self, draws) ==
    IF draws = <<>> THEN <<>>
    ELSE LET val == ARNVal(self, Head(draws))
         IN  <<AsUsize(val)>> \o ARNRun([self EXCEPT !.m_prev = val], Tail(draws))

\* the indices an OVN generator returns when it alone takes the draws
RECURSIVE OVNRun(_, _)
OVNRun(self, draws) ==
    IF draws = <<>> THEN <<>>
    ELSE <<OVNVal(self.m, self.td, JitterOf(Head(draws), self.td))>>
           \o OVNRun(OVNAdvance(self), Tail(draws))

\* the program constructs two generators in one thread: an ARN generator,
\* and a second ARN generator or an OVN generator
SharedConstruct ==
    /\ pc = "start"
    /\ \E d \in 1..MaxDensity, s \in 1..MaxRate, delta \in Deltas,
          tape \in Tapes, other \in {"ARN", "OVN"}, own \in SmallRngs :
         /\ d <= s
         /\ other = "ARN" => own = [tape |-> tape, pos |-> 0]
         /\ args' = [density |-> d, sample_rate |-> s, delta |-> delta]
         /\ thread_rng' = [tape |-> tape, pos |-> 0]
         /\ gens' = << [kind |-> "ARN", self |-> ARNNew(F32(d), F32(s), delta),
                        r1m |-> "thread_rng", returned |-> <<>>],
                       IF other = "ARN"
                       THEN [kind |-> "ARN", self |-> ARNNew(F32(d), F32(s), delta),
                             r1m |-> "thread_rng", returned |-> <<>>]
                       ELSE [kind |-> "OVN", self |-> OVNNew(d, s),
                             r1m |-> own, returned |-> <<>>] >>
    /\ pc' = "ready"
    /\ UNCHANGED <<ovn, locs, chunkVars, arnVars, kernel, tapVars, noiseVars,
                   reverbVars>>

\* the program calls next() on one of the two generators
SharedStep ==
    /\ pc = "ready"
    /\ \E i \in 1..2 :
         LET g == gens[i]
         IN  IF g.kind = "ARN"
             THEN /\ thread_rng.pos < TapeLen
                  /\ LET draw == RngNext(thread_rng)
                         val == ARNVal(g.self, draw.value)
                     IN  /\ thread_rng' = draw.rng
                         /\ gens' = [gens EXCEPT
                                       ![i].self.m_prev = val,
                                       ![i].returned = Append(g.returned, AsUsize(val))]
             ELSE /\ g.r1m.pos < TapeLen
                  /\ LET draw == RngNext(g.r1m)
                         val == OVNVal(g.self.m, g.self.td,
                                       JitterOf(draw.value, g.self.td))
                     IN  /\ thread_rng' = thread_rng
                         /\ gens' = [gens EXCEPT
                                       ![i].self = OVNAdvance(g.self),
                                       ![i].r1m = draw.rng,
                                       ![i].returned = Append(g.returned, val)]
    /\ UNCHANGED <<pc, args, ovn, locs, chunkVars, arnVars, kernel, tapVars,
                   noiseVars, reverbVars>>

InitShared ==
    /\ pc = "start"
    /\ args = NoArgs
    /\ IdleOVN
    /\ locs = <<>>
    /\ IdleChunked
    /\ IdleARN
    /\ IdleKernel
    /\ IdleTaps
    /\ IdleNoise
    /\ thread_rng = NoRng
    /\ gens = <<>>
    /\ IdleReverb

NextShared == SharedConstruct \/ SharedStep

SpecShared == InitShared /\ [][NextShared]_vars

\* what instance i returns when next() is never called on the other one
AloneReturns(i) ==
    LET n == Len(gens[i].returned)
    IN  IF gens[i].kind = "ARN"
        THEN ARNRun(ARNNew(F32(args.density), F32(args.sample_rate), args.delta),
                    SubSeq(thread_rng.tape, 1, n))
        ELSE OVNRun(OVNNew(args.density, args.sample_rate),
                    SubSeq(gens[i].r1m.tape, 1, n))

\* C14: the sequence of values an instance returns is the one it returns
\* when next() is never called on the other instance, however often it was.
C14_InstancesIndependent ==
    pc = "ready" => \A i \in 1..2 : gens[i].returned = AloneReturns(i)

\* an ARN instance whose value was changed by a call of next() on the other
\* ARN instance, which took the draw it would have had
C14_SharedThreadRng ==
    /\ pc = "ready"
    /\ gens[1].kind = "ARN" /\ gens[2].kind = "ARN"
    /\ Len(gens[2].returned) = 1
    /\ Len(gens[1].returned) = 1
    /\ gens[1].returned # AloneReturns(1)

\* what does hold: an instance next to an OVN instance, which owns its
\* generator, returns what it returns alone
OwnRngIndependent ==
    (pc = "ready" /\ gens[2].kind = "OVN") =>
        \A i \in 1..2 : gens[i].returned = AloneReturns(i)

(***************************************************************************)
(* The reverb program (examples/reverb.rs, main).  The model keeps the     *)
(* program's structure at a smaller size: a border table of three entries  *)
(* instead of 21, a delay buffer of BufferLen samples instead of 100,000,  *)
(* and three allpass stages instead of seven.                              *)
(***************************************************************************)

\* let border_samples = vec![4411, 5672, ..., 90053]
border_samples == <<0, 4, 5>>

\* let num_stages = 20usize: one stage per pair of neighbouring borders
num_stages == Len(border_samples) - 1

max_density == 100
min_density == 40
density_step == (max_density - min_density) \div num_stages

max_gain_db == 0
min_gain_db == 0 - 30
first_stage_gain_boost == 3
gain_step_db == FDiv(FSub(F32(max_gain_db), F32(min_gain_db)), F32(num_stages))

\* let mut slice = [0f32; 100_000]
BufferLen == 6

\* the 99_999 of delay_buffer.get(99_999 - *idx)
LastSlot == BufferLen - 1

\* AllPass::new(1, 0.618), AllPass::new(64, 0.618), ..., AllPass::new(630, 0.618)
allpass_delays == <<1, 2, 3>>
Feedback == RoundToFloat(618, 1000)

\* let output_gain = 0.2
output_gain == RoundToFloat(2, 10)

\* the sample rates of the input files the model reads: half the greatest
\* density, the greatest density, and six times it
ReverbRates == {max_density \div 2, max_density, 6 * max_density}

\* the input samples the model reads (i16 scaled into [-1, 1)): -1 and 1/2
ReverbInputs == {0 - Grid, Grid \div 2}

\* 10^(db / 20) in thousandths, for db = -30, -29, ..., 3
DbTable ==
    <<32, 35, 40, 45, 50, 56, 63, 71, 79, 89, 100, 112, 126, 141, 158, 178,
      200, 224, 251, 282, 316, 355, 398, 447, 501, 562, 631, 708, 794, 891,
      1000, 1122, 1259, 1413>>

\* the whole number of decibels in a float
WholeDb(db) == IF db < 0 THEN 0 - ((0 - db) \div Grid) ELSE db \div Grid

\* db_to_linear: 10f32.powf(db / 20.)
DbToLinear(db) == RoundToFloat(DbTable[WholeDb(db) + 31], 1000)

(***************************************************************************)
(* dasp_ring_buffer::Fixed, the ring buffer both the delay buffer and the  *)
(* allpass delay lines are: `first` is the position of the oldest item.    *)
(* Item k of the data is data[k + 1].                                      *)
(***************************************************************************)

Zeros(n) == [k \in 1..n |-> 0]

\* Fixed::from(data): first = 0
FixedFrom(data) == [first |-> 0, data |-> data]

\* Fixed::push(item): the item replaces the oldest one, first moves on by one
FixedPush(rb, item) ==
    [first |-> (rb.first + 1) % Len(rb.data),
     data |-> [rb.data EXCEPT ![rb.first + 1] = item]]

\* a get that counts from the start of the data instead of from `first`
FixedGetAbsolute(rb, index) == rb.data[(index % Len(rb.data)) + 1]

\* Fixed::get(index): the item index places after the oldest one; an index
\* beyond the length is wrapped around it
FixedGet(rb, index) == rb.data[((rb.first + index) % Len(rb.data)) + 1]

\* AllPass::new(delay, feedback)
AllPassNew(delay, feedback) ==
    [buffer |-> FixedFrom(Zeros(delay)), delay_index |-> delay - 1, g |-> feedback]

\* AllPass::process(sample): the stage after the call, what it returns, and
\* the delayed sample it read and the feedback sample it pushed
AllPassProcess(self, sample) ==
    LET delay == FixedGet(self.buffer, self.delay_index)
        feedback == FAdd(sample, FMul(delay, 0 - self.g))
        feedforward == FMul(feedback, self.g)
    IN  [self |-> [self EXCEPT !.buffer = FixedPush(self.buffer, feedback)],
         out |-> FAdd(delay, feedforward),
         delay |-> delay,
         feedback |-> feedback]

\* for ap in allpass_filters.iter_mut() { samp_out = ap.process(samp_out); }
RECURSIVE Cascade(_, _)
Cascade(filters, sample) ==
    IF filters = <<>>
    THEN [filters |-> <<>>, out |-> sample, delayed |-> <<>>, feedback |-> <<>>]
    ELSE LET r == AllPassProcess(Head(filters), sample)
             rest == Cascade(Tail(filters), r.out)
         IN  [filters |-> <<r.self>> \o rest.filters,
              out |-> rest.out,
              delayed |-> <<r.delay>> \o rest.delayed,
              feedback |-> <<r.feedback>> \o rest.feedback]

\* a stage that renders from the first border on
StageMinFirst(i) == border_samples[1]

\* let min_idx = border_samples[i]
StageMin(i) == border_samples[i + 1]

\* let max_idx = border_samples[i + 1]
StageMax(i) == border_samples[i + 2]

\* let density = max_density - (i * density_step)
StageDensity(i) == max_density - (i * density_step)

\* let gain = if i == 0 { .. } else { .. }
StageGain(i) ==
    IF i = 0
    THEN DbToLinear(FAdd(F32(max_gain_db), F32(first_stage_gain_boost)))
    ELSE DbToLinear(FSub(F32(max_gain_db), FMul(F32(i), gain_step_db)))

\* the kernels stage i can render
StageKernels(i, sample_rate) ==
    {r.kernel : r \in Render(OVNNew(StageDensity(i), sample_rate),
                             StageMin(i), StageMax(i), StageGain(i))}

\* kernels.into_iter().flat_map(|k| k.into_iter()).collect(), from stage i on
RECURSIVE CombinedKernels(_, _)
CombinedKernels(i, sample_rate) ==
    IF i = num_stages THEN {<<>>}
    ELSE {k \o rest : k \in StageKernels(i, sample_rate),
                      rest \in CombinedKernels(i + 1, sample_rate)}

\* a slot counted forward from the last one
SlotOfForward(idx) == LastSlot + idx

\* 99_999 - *idx
SlotOf(idx) == LastSlot - idx

\* .map(|(idx, gain)| delay_buffer.get(..) * gain).sum()
RECURSIVE SumTerms(_, _)
SumTerms(terms, acc) ==
    IF terms = <<>> THEN acc
    ELSE SumTerms(Tail(terms), FAdd(acc, FMul(Head(terms)[3], Head(terms)[2])))

\* the program reads the file's header and builds kernel, buffer and filters
ReverbSetup ==
    /\ pc = "start"
    /\ \E s \in ReverbRates :
         /\ args' = [density |-> max_density, sample_rate |-> s]
         /\ IF \E i \in 0..(num_stages - 1) :
                 GenRange(0, OVNNew(StageDensity(i), s).td) = {}
            THEN /\ pc' = "panic_gen_range"
                 /\ UNCHANGED <<kernel, reverbVars>>
            ELSE /\ pc' = "running"
                 /\ kernel' \in CombinedKernels(0, s)
                 /\ delay_buffer' = FixedFrom(Zeros(BufferLen))
                 /\ allpass_filters' =
                      [j \in 1..Len(allpass_delays) |->
                         AllPassNew(allpass_delays[j], Feedback)]
                 /\ reverb' = [NoReverb EXCEPT
                                 !.fed = [j \in 1..Len(allpass_delays) |-> <<>>]]
    /\ UNCHANGED <<ovn, locs, chunkVars, arnVars, tapVars, noiseVars, rngVars>>

\* one iteration of the DSP loop, for the next input sample
ReverbStep ==
    /\ pc = "running"
    /\ reverb.n < MaxReverbSamples
    /\ \E sample \in ReverbInputs :
         LET pushed == FixedPush(delay_buffer, sample)
             slots == [k \in 1..Len(kernel) |-> SlotOf(kernel[k][1])]
         IN  IF \E k \in 1..Len(slots) : slots[k] < 0
             THEN \* 99_999 - *idx leaves usize
                  /\ pc' = "panic_subtract_overflow"
                  /\ UNCHANGED reverbVars
             ELSE LET terms == [k \in 1..Len(kernel) |->
                                  <<kernel[k][1], kernel[k][2],
                                    FixedGet(pushed, slots[k])>>]
                      casc == Cascade(allpass_filters, SumTerms(terms, F32(0)))
                      samp_out == FMul(casc.out, output_gain)
                  IN  /\ delay_buffer' = pushed
                      /\ allpass_filters' = casc.filters
                      /\ reverb' =
                           [n |-> reverb.n + 1,
                            inputs |-> Append(reverb.inputs, sample),
                            offsets |-> slots,
                            terms |-> terms,
                            delayed |-> casc.delayed,
                            fed |-> [j \in 1..Len(reverb.fed) |->
                                       Append(reverb.fed[j], casc.feedback[j])],
                            written |-> IF samp_out < F32(1)
                                        THEN Append(reverb.written, samp_out)
                                        ELSE reverb.written]
                      \* assert!(samp_out < 1.)
                      /\ pc' = IF samp_out < F32(1) THEN pc ELSE "panic_assert"
    /\ UNCHANGED <<args, ovn, locs, chunkVars, arnVars, kernel, tapVars,
                   noiseVars, rngVars>>

InitReverb ==
    /\ pc = "start"
    /\ args = NoArgs
    /\ IdleOVN
    /\ locs = <<>>
    /\ IdleChunked
    /\ IdleARN
    /\ kernel = <<>>
    /\ IdleTaps
    /\ IdleNoise
    /\ IdleRng
    /\ delay_buffer = NoRing
    /\ allpass_filters = <<>>
    /\ reverb = NoReverb

NextReverb == ReverbSetup \/ ReverbStep

SpecReverb == InitReverb /\ [][NextReverb]_vars

ReverbBuilt == pc \in {"running", "panic_assert"}

\* the sizes of the program itself: [0f32; 100_000], the 99_999 of the
\* convolution's get, and the last entry of border_samples
delay_buffer_len == 100000
last_slot == 99999
last_border == 90053

\* the last border fits the buffer, in the program and in the model alike,
\* and the slot of index 0 is the buffer's last one
ReferenceSizes ==
    /\ last_border <= delay_buffer_len
    /\ last_slot = delay_buffer_len - 1
    /\ Last(border_samples) <= BufferLen
    /\ LastSlot = BufferLen - 1

\* C15: every index of the combined kernel lies in [0, C), at most the last
\* border, and every offset the convolution passed to the delay buffer's get
\* lies in [0, C): none was wrapped around the buffer and no access failed.
C15_OffsetsInBuffer ==
    /\ pc # "panic_subtract_overflow"
    /\ ReferenceSizes
    /\ ReverbBuilt =>
         /\ \A k \in 1..Len(kernel) :
              /\ 0 <= kernel[k][1] /\ kernel[k][1] < Len(delay_buffer.data)
              /\ kernel[k][1] <= Last(border_samples)
         /\ \A k \in 1..Len(reverb.offsets) :
              0 <= reverb.offsets[k] /\ reverb.offsets[k] < Len(delay_buffer.data)

\* the buffer has been filled once and overwritten from its start, and the
\* last convolution read it at the greatest and at the least kernel index
C15_Witness ==
    /\ pc = "running"
    /\ reverb.n > BufferLen
    /\ Len(reverb.offsets) >= 3
    /\ \E k \in 1..Len(kernel) : kernel[k][1] = Last(border_samples) - 1
    /\ \E k \in 1..Len(kernel) : kernel[k][1] = border_samples[1]
    /\ \E k \in 1..Len(reverb.offsets) : reverb.offsets[k] = LastSlot

\* C16: every sample written to the output lies strictly between -1 and 1;
\* a sample at or beyond either end makes the program fail instead.
C16_WrittenInRange ==
    \A k \in 1..Len(reverb.written) :
        0 - F32(1) < reverb.written[k] /\ reverb.written[k] < F32(1)

\* a sample at or below -1 has been written
C16_WrittenBelowRange ==
    /\ pc = "running"
    /\ reverb.written # <<>>
    /\ Last(reverb.written) <= 0 - F32(1)

\* C17: while processing its n-th input, every allpass stage reads the
\* feedback sample it pushed while processing input n - D (D its delay
\* length), and 0 during its first D inputs.
C17_ReadsOldest ==
    (ReverbBuilt /\ reverb.n >= 1) =>
        \A j \in 1..Len(allpass_delays) :
            reverb.delayed[j] =
                (IF reverb.n > allpass_delays[j]
                 THEN reverb.fed[j][reverb.n - allpass_delays[j]]
                 ELSE 0)

\* what the stages do read: the feedback sample pushed for the input before
AllpassReadsNewest ==
    (ReverbBuilt /\ reverb.n >= 1) =>
        \A j \in 1..Len(allpass_delays) :
            reverb.delayed[j] =
                (IF reverb.n > 1 THEN reverb.fed[j][reverb.n - 1] ELSE 0)

\* a stage of delay length 2 has read, for its second input, the feedback
\* sample of its first input instead of the initial 0
C17_ReadsNewest ==
    /\ pc = "running"
    /\ reverb.n = 2
    /\ allpass_delays[2] = 2
    /\ reverb.fed[2][1] # 0
    /\ reverb.delayed[2] = reverb.fed[2][1]

\* the input sample pushed k pushes before the most recent one (0 before
\* the first push)
PushedBefore(k) ==
    IF reverb.n - k >= 1 THEN reverb.inputs[reverb.n - k] ELSE 0

\* each kernel pair of the last convolution was multiplied with the input
\* sample pushed idx pushes before the current one
TermsReadBack ==
    \A k \in 1..Len(reverb.terms) :
        /\ reverb.terms[k][1] = kernel[k][1]
        /\ reverb.terms[k][2] = kernel[k][2]
        /\ reverb.terms[k][3] = PushedBefore(kernel[k][1])

\* C18 as stated: get(offset) returns the sample written offset pushes
\* before the most recent push (offset 0 the most recent one), and each
\* kernel pair is multiplied with the sample pushed idx pushes before.
C18_GetCountsBack ==
    (ReverbBuilt /\ reverb.n >= 1) =>
        /\ \A offset \in 0..(BufferLen - 1) :
             FixedGet(delay_buffer, offset) = PushedBefore(offset)
        /\ TermsReadBack

\* C18 amended: get(i) returns the sample written C - 1 - i pushes before
\* the most recent push (C - 1 the most recent one, 0 the oldest), and the
\* convolution asks for C - 1 - idx, so each kernel pair is multiplied with
\* the sample pushed idx pushes before the current one.
C18_GetCountsFromOldest ==
    (ReverbBuilt /\ reverb.n >= 1) =>
        /\ \A i \in 0..(BufferLen - 1) :
             FixedGet(delay_buffer, i) = PushedBefore((BufferLen - 1) - i)
        /\ \A k \in 1..Len(reverb.offsets) :
             reverb.offsets[k] = (BufferLen - 1) - kernel[k][1]
        /\ TermsReadBack

\* the buffer has been overwritten from its start, with both input values
\* in it, and a kernel of three or more pairs has read it
C18_Witness ==
    /\ pc = "running"
    /\ reverb.n > BufferLen
    /\ delay_buffer.first = 1
    /\ Len(reverb.terms) >= 3
    /\ reverb.terms[1][3] # reverb.terms[2][3]
    /\ FixedGet(delay_buffer, 0) # FixedGet(delay_buffer, BufferLen - 1)

\* C19: the combined kernel's indices are strictly increasing over the
\* whole concatenation, so none occurs twice, and every index lies between
\* the first border (inclusive) and the last (exclusive).
C19_CombinedKernelIncreasing ==
    ReverbBuilt =>
        /\ \A k \in 1..(Len(kernel) - 1) : kernel[k][1] < kernel[k + 1][1]
        /\ \A k \in 1..Len(kernel) :
             /\ border_samples[1] <= kernel[k][1]
             /\ kernel[k][1] < Last(border_samples)

\* a combined kernel with pairs of both stages, the first stage's pairs on
\* neighbouring indices up to its upper border
C19_Witness ==
    /\ pc = "running"
    /\ reverb.n = 0
    /\ Len(kernel) >= 3
    /\ Last(kernel)[1] = StageMin(1)
    /\ kernel[Len(kernel) - 1][1] = StageMax(0) - 1
    /\ kernel[Len(kernel) - 2][1] = StageMax(0) - 2

\* C20: the frame is computed from the taps as they stand before they move;
\* every tap then moves on by exactly one position; exactly the taps that
\* stood at N - 1 are retired, and one tap at position 0 is pushed for each.
\* So a tap pushed at position 0 has gone into as many frames as its
\* position says, reading source[0], source[1], ... in order, and no tap
\* lives for more than N frames.
C20_TapLifecycle ==
    (pc = "running" /\ engine.iters >= 1) =>
        LET N == args.samples
            before == engine.before
            stay == {k \in 1..Len(before) : before[k][1] < N - 1}
            kept == Keep(before, stay)
            fresh == Len(before) - Len(kept)
        IN  /\ engine.reads = Indices(before)
            /\ engine.frame =
                 FMul(ConvolveKern(Samples(N), before, 0), OutputGain)
            /\ Len(taps) = Len(kept) + fresh
            /\ \A k \in 1..Len(kept) :
                 taps[k] = <<kept[k][1] + 1, kept[k][2]>>
            /\ \A k \in (Len(kept) + 1)..Len(taps) :
                 /\ taps[k][1] = 0
                 /\ engine.life[k] = [start |-> 0, frames |-> 0]
            /\ fresh = Cardinality({k \in 1..Len(before) : before[k][1] = N - 1})
            /\ fresh = engine.retired
            /\ \A k \in 1..Len(taps) :
                 /\ taps[k][1] = engine.life[k].start + engine.life[k].frames
                 /\ engine.life[k].frames < N

\* a tap pushed at position 0 has gone into N - 1 frames and stands at the
\* last source sample, while another tap has just been retired and replaced
C20_Witness ==
    /\ pc = "running"
    /\ args.samples >= 3
    /\ engine.retired = 1
    /\ Last(taps)[1] = 0
    /\ \E k \in 1..Len(taps) :
         /\ engine.life[k] = [start |-> 0, frames |-> args.samples - 1]
         /\ taps[k][1] = args.samples - 1

\* C21: for every non-empty source and every sample rate the program gets
\* past seeding, and the number of taps it seeds is the suggested number of
\* simultaneous taps (density x duration).
C21_SeedsSuggestedTaps ==
    pc # "start" =>
        /\ pc \in {"running", "panic_index_out_of_bounds"}
        /\ engine.ntaps0 = SuggestedTaps

\* a source longer than SuggestedTaps seconds: the density truncates to 0
\* and OVNImpulseLocations::new divides by it
C21_SeedingFails ==
    /\ pc = "panic_divide_by_zero"
    /\ args.density = 0
    /\ args.samples > SuggestedTaps * args.sample_rate

\* a source that is seeded, with a number of taps other than the suggested
C21_OtherTapCount ==
    /\ pc = "running"
    /\ engine.iters = 0
    /\ engine.ntaps0 # SuggestedTaps

(***************************************************************************)
(* CrushedAdditiveVelvetNoise: the sample stream over ARN locations        *)
(***************************************************************************)

\* the samples up to which a stream is followed: past the last whole number
\* the floats hold exactly
MaxAdditiveSamples == Pow2(MantBits) + 2

\* the program calls CrushedAdditiveVelvetNoise::new(density, sample_rate,
\* delta, p) with a valid configuration
AdditiveConstruct ==
    /\ pc = "start"
    /\ \E d \in 1..MaxDensity, s \in 1..MaxRate, delta \in Deltas,
          p \in Skews, u \in Uniforms :
         /\ d <= s
         /\ BernoulliNew(p)
         /\ args' = [density |-> d, sample_rate |-> s, delta |-> delta, p |-> p]
         /\ LET imps == ARNNew(F32(d), F32(s), delta)
                val == ARNVal(imps, u)
            IN  noise' = [impulses |-> [imps EXCEPT !.m_prev = val], p |-> p,
                          n |-> 0, kovn |-> AsUsize(val)]
    /\ pc' = "ready"
    /\ UNCHANGED <<ovn, locs, chunkVars, arnVars, kernel, tapVars, signal,
                   rngVars, reverbVars>>

\* the program calls next() on the additive noise stream
AdditiveStep ==
    /\ pc = "ready"
    /\ noise.n < MaxAdditiveSamples
    /\ IF NoiseHit(noise.n, noise.kovn)
       THEN \E u \in Uniforms, success \in BernoulliSample(noise.p) :
              LET val == ARNVal(noise.impulses, u)
                  value == ChoiceNext(success)
              IN  /\ noise' = [noise EXCEPT !.impulses.m_prev = val,
                                            !.kovn = AsUsize(val),
                                            !.n = noise.n + 1]
                  /\ signal' = [samples |-> <<value>>,
                                signs |-> << <<success, value>> >>]
       ELSE /\ noise' = [noise EXCEPT !.n = noise.n + 1]
            /\ signal' = [signal EXCEPT !.samples = <<F32(0)>>]
    /\ UNCHANGED <<pc, args, ovn, locs, chunkVars, arnVars, kernel, tapVars,
                   rngVars, reverbVars>>

InitAdditive ==
    /\ pc = "start"
    /\ args = NoArgs
    /\ IdleOVN
    /\ locs = <<>>
    /\ IdleChunked
    /\ IdleARN
    /\ IdleKernel
    /\ IdleTaps
    /\ noise = NoNoise
    /\ signal = NoSignal
    /\ IdleRng
    /\ IdleReverb

NextAdditive == AdditiveConstruct \/ AdditiveStep

SpecAdditive == InitAdditive /\ [][NextAdditive]_vars

\* C22: under a valid configuration the pending impulse location kovn is
\* at least the sample counter n before every call of next, so the test
\* n == kovn is never passed by and the stream goes on emitting impulses.
C22_PendingNotBehind ==
    pc = "ready" => noise.kovn >= noise.n

\* an additive stream with density = sample_rate whose location generator
\* returned the index it had returned before: the counter has passed kovn
\* and every further sample is 0
C22_Stalled ==
    /\ pc = "ready"
    /\ args.density = args.sample_rate
    /\ noise.impulses.m_prev = Pow2(MantBits) * Grid
    /\ noise.kovn = Pow2(MantBits)
    /\ noise.n = noise.kovn + 2
    /\ signal.samples = <<F32(0)>>

\* what does hold: the streams over OVN locations keep kovn at or ahead of n
OVNPendingNotBehind ==
    (pc = "ready" /\ args.variant \in {"VelvetNoise", "CrushedOriginalVelvetNoise"}) =>
        /\ noise.kovn = Last(locs)
        /\ noise.kovn >= noise.n

\* C23: for every chunk_length >= 1 and valid (density, sample_rate), every
\* index drawn from the underlying stream is at least the base of the call
\* that drew it, and the pending stored index is at least the current base:
\* the subtraction x - base never underflows.
C23_NeverBelowBase ==
    /\ pc # "panic_subtract_overflow"
    /\ pc = "ready" =>
         /\ cvil.base = Len(chunks) * args.chunk_length
         /\ \A x \in Elems(cvil.store) : x >= cvil.base
         /\ \A j \in 1..Len(chunks) : \A x \in Elems(chunks[j]) :
              x >= (j - 1) * args.chunk_length
         /\ Elems(locs) = Elems(Flatten(chunks)) \cup Elems(cvil.store)

\* three windows returned; the index carried into the second one sat
\* exactly on its base, and the pending index sits exactly on the current one
C23_Witness ==
    /\ pc = "ready"
    /\ Len(chunks) = 3
    /\ args.chunk_length >= 2
    /\ chunks[2] # <<>>
    /\ chunks[2][1] = args.chunk_length
    /\ cvil.store = <<cvil.base>>

====
